---------------------------- MODULE Spec2Model ----------------------------
(***************************************************************************)
(* A model of F-Proxy (src/index.ts): the discovery-and-verification       *)
(* pipeline.  main() queries the search backend twice, fetches the pages   *)
(* of the first query's targets under async.mapLimit, extracts and         *)
(* deduplicates subscription links, verifies every link under              *)
(* async.mapLimit, and reports.                                            *)
(*                                                                         *)
(* Strings are modelled by the pieces the code looks at.  A link or a host *)
(* is the sequence of its tokens (scheme, authority, path+query), so two   *)
(* links are the same string exactly when their token sequences are equal. *)
(* A text scanned by SUBSCRIPTION_REGEX is the sequence of its matches.    *)
(* A usage header is the sequence of its ';'-separated segments, a segment *)
(* being its key and the characters of its value.  An optional value       *)
(* (null / undefined in the source) is a sequence of length 0 or 1.        *)
(***************************************************************************)
EXTENDS Integers, Sequences, FiniteSets, TLC

VARIABLES
    pc,          \* position of main(): "search", "fetch", "verify", "done", "aborted"
    exitCode,    \* -1 while the process runs, then 0 or 1
    limit,       \* CONCURRENCY_LIMIT (src/index.ts:10), validated >= 1 at startup
    clock,       \* the wall clock, in milliseconds (Date.now())
    query,       \* the two search queries: "pending", "ok" or "failed"
    targets,     \* the two queries' results: [1..2 -> Seq(FofaTarget)]
    fetchB,      \* the async.mapLimit batch of fetchPageContents
    verifyB,     \* the async.mapLimit batch of verifySubscriptionLinks
    found,       \* pageResults.length and allLinksToVerify.length in main (-1 until computed)
    report,      \* what reportResults printed: <<>> until it ran, then <<lines>>
    fin,         \* input of the function under study (function-level specifications)
    fout         \* its output, <<>> until it ran

vars == <<pc, exitCode, limit, clock, query, targets, fetchB, verifyB, found,
          report, fin, fout>>

(***************************************************************************)
(* Bounds of the model.                                                    *)
(***************************************************************************)
MaxTargets == 3      \* most targets the page query returns
MaxDirect == 1       \* most targets the direct-host query returns
MaxLimit == 2        \* largest CONCURRENCY_LIMIT explored
MaxList == 3         \* longest input list of a function-level specification

(***************************************************************************)
(* Program constants.                                                      *)
(***************************************************************************)
MsPerSecond == 1000  \* Date.now() / 1000, expire * 1000
BytesBelowUnit == 1000
LogStep == 10
UnitBase == 1024

UNITS == <<"B", "KB", "MB", "GB", "TB", "PB", "EB", "ZB", "YB">>

None == <<>>
Some(x) == <<x>>

RECURSIVE Pow(_, _)
Pow(b, e) == IF e = 0 THEN 1 ELSE b * Pow(b, e - 1)

\* UNIT_POWERS[exp], computed on demand
UNIT_POWERS(exp) == Pow(UnitBase, exp)

(***************************************************************************)
(* String.prototype.startsWith on a token sequence: the first token of a   *)
(* link or host is its scheme ("http://", "https://"), or, when it has no  *)
(* scheme, its authority; only the first token's characters matter.        *)
(***************************************************************************)
HttpPrefixed == {"http://", "https://", "httpbin.example"}

StartsWith(s, prefix) ==
    /\ Len(s) > 0
    /\ CASE prefix = "http" -> s[1] \in HttpPrefixed
         [] prefix = "http://" -> s[1] = "http://"
         [] prefix = "https://" -> s[1] = "https://"
         [] OTHER -> FALSE

\* buildFullUrl(host, protocol): protocol is None when the argument is omitted.
buildFullUrl(host, protocol) ==
    IF StartsWith(host, "http")
    THEN host
    ELSE <<(IF protocol = None \/ protocol[1] = "" THEN "http" ELSE protocol[1]) \o "://">> \o host

(***************************************************************************)
(* parseInt(value, 10) on the characters of value: an optional sign, then  *)
(* the longest prefix of digits; NaN when there is no digit.               *)
(***************************************************************************)
Digits == <<"0", "1", "2", "3", "4", "5", "6", "7", "8", "9">>

IsDigit(c) == \E d \in 1..Len(Digits) : Digits[d] = c

DigitVal(c) == (CHOOSE d \in 1..Len(Digits) : Digits[d] = c) - 1

RECURSIVE DigitPrefix(_, _)
DigitPrefix(s, acc) ==
    IF s = <<>> \/ ~IsDigit(Head(s))
    THEN acc
    ELSE DigitPrefix(Tail(s), acc * 10 + DigitVal(Head(s)))

parseInt(s) ==
    LET neg == s # <<>> /\ Head(s) = "-"
        body == IF s # <<>> /\ Head(s) \in {"-", "+"} THEN Tail(s) ELSE s
    IN  IF body = <<>> \/ ~IsDigit(Head(body))
        THEN [nan |-> TRUE, n |-> 0]
        ELSE [nan |-> FALSE,
              n |-> IF neg THEN 0 - DigitPrefix(body, 0) ELSE DigitPrefix(body, 0)]

(***************************************************************************)
(* A header value is None (the header is absent) or Some(segments); the    *)
(* empty string is the one segment with an empty key and no value.         *)
(***************************************************************************)
EmptySegment == [key |-> "", value |-> <<>>]

\* !headerValue: null, undefined or the empty string
HeaderFalsy(h) == h = None \/ h[1] = <<EmptySegment>>

RECURSIVE ParsePairs(_, _)
ParsePairs(pairs, result) ==
    IF pairs = <<>> THEN result
    ELSE LET pair == Head(pairs)
             numValue == parseInt(pair.value)
             next ==
                IF pair.value = <<>> THEN result
                ELSE IF pair.key = "upload" /\ ~numValue.nan
                    THEN [result EXCEPT !.upload = numValue.n]
                ELSE IF pair.key = "download" /\ ~numValue.nan
                    THEN [result EXCEPT !.download = numValue.n]
                ELSE IF pair.key = "total" /\ ~numValue.nan
                    THEN [result EXCEPT !.total = numValue.n]
                ELSE IF pair.key = "expire" /\ ~numValue.nan
                    THEN [result EXCEPT !.expire = Some(numValue.n)]
                ELSE result
         IN  ParsePairs(Tail(pairs), next)

\* Mutant of parseSubscriptionUserinfo: a header that sets no field is a
\* parse failure.
parseSubscriptionUserinfoOrFail(headerValue) ==
    LET default == [upload |-> 0, download |-> 0, total |-> 0, expire |-> None]
    IN  IF HeaderFalsy(headerValue) \/ ParsePairs(headerValue[1], default) = default
        THEN None
        ELSE Some(ParsePairs(headerValue[1], default))

\* Returns None for null, Some(record) otherwise.
parseSubscriptionUserinfo(headerValue) ==
    IF HeaderFalsy(headerValue) THEN None
    ELSE Some(ParsePairs(headerValue[1],
                         [upload |-> 0, download |-> 0, total |-> 0, expire |-> None]))

(***************************************************************************)
(* parseTraffic.  The rendered number is kept as its digits and decimal    *)
(* exponent: [digits |-> 123, e |-> 1] is "12.3".  num is a number here    *)
(* (an integer), so typeof num !== "number" never holds.                   *)
(***************************************************************************)
RECURSIVE FloorLog2(_)
FloorLog2(n) == IF n < 2 THEN 0 ELSE 1 + FloorLog2(n \div 2)

Min(a, b) == IF a <= b THEN a ELSE b

\* round(a / b), ties away from zero, for a >= 0, b > 0
RoundDiv(a, b) == (2 * a + b) \div (2 * b)

toPrecision3(num, p) ==
    LET e == IF num < 10 * p THEN 0 ELSE IF num < 100 * p THEN 1 ELSE 2
        n == RoundDiv(num * Pow(10, 2 - e), p)
    IN  IF n = 1000 THEN [digits |-> 100, e |-> e + 1] ELSE [digits |-> n, e |-> e]

parseTraffic(num) ==
    IF num < 0 THEN <<[digits |-> 0, e |-> -1], "">>
    ELSE IF num < BytesBelowUnit THEN <<[digits |-> num, e |-> 0], "B">>
    ELSE LET exp == Min(FloorLog2(num) \div LogStep, Len(UNITS) - 1)
             p == UNIT_POWERS(exp)
             ret == IF num >= 1000 * p
                    THEN [digits |-> RoundDiv(num, p), e |-> 0]
                    ELSE toPrecision3(num, p)
         IN  <<ret, UNITS[exp + 1]>>

calculateUsedTraffic(userinfo) == userinfo.upload + userinfo.download

\* userinfo.expire as a condition: null and 0 are falsy
ExpireTruthy(userinfo) == userinfo.expire # None /\ userinfo.expire[1] # 0

\* formatUsageInfo, reading the clock as nowMs
formatUsageInfo(userinfo, nowMs) ==
    LET used == calculateUsedTraffic(userinfo)
        annotation ==
            IF ExpireTruthy(userinfo)
            THEN IF userinfo.expire[1] * MsPerSecond > nowMs
                 THEN <<"date", ToString(userinfo.expire[1])>>
                 ELSE <<"expired">>
            ELSE <<>>
    IN  [used |-> parseTraffic(used), total |-> parseTraffic(userinfo.total),
         annotation |-> annotation]

(***************************************************************************)
(* parseYamlContent.  YAML.parse is the yaml package's; a body is the kind *)
(* of document it parses to.                                               *)
(***************************************************************************)
Bodies == {"", "malformed", "scalar", "list", "mapNoGroups", "groupsScalar",
           "groupsEmpty", "config"}

YAMLparse(body) ==
    CASE body = "" -> [throws |-> FALSE, root |-> "null", groups |-> "absent"]
      [] body = "malformed" -> [throws |-> TRUE, root |-> "null", groups |-> "absent"]
      [] body = "scalar" -> [throws |-> FALSE, root |-> "scalar", groups |-> "absent"]
      [] body = "list" -> [throws |-> FALSE, root |-> "object", groups |-> "absent"]
      [] body = "mapNoGroups" -> [throws |-> FALSE, root |-> "object", groups |-> "absent"]
      [] body = "groupsScalar" -> [throws |-> FALSE, root |-> "object", groups |-> "scalar"]
      [] body = "groupsEmpty" -> [throws |-> FALSE, root |-> "object", groups |-> "emptyArray"]
      [] OTHER -> [throws |-> FALSE, root |-> "object", groups |-> "array"]

parseYamlContent(body) ==
    LET parsed == YAMLparse(body)
    IN  IF parsed.throws THEN FALSE
        ELSE IF parsed.root # "object" THEN FALSE
        ELSE IF parsed.groups \notin {"emptyArray", "array"} THEN FALSE
        ELSE IF parsed.groups = "emptyArray" THEN FALSE
        ELSE TRUE

(***************************************************************************)
(* validateSubscription, reading the clock as nowMs.  The reasons are the  *)
(* source's "流量已用完" and "已过期".                                      *)
(***************************************************************************)
QuotaExhausted == "quota exhausted"
Expired == "expired"

validateSubscription(userinfo, nowMs) ==
    LET used == calculateUsedTraffic(userinfo)
        now == nowMs \div MsPerSecond
    IN  IF used >= userinfo.total
        THEN [valid |-> FALSE, reason |-> Some(QuotaExhausted)]
        ELSE IF ExpireTruthy(userinfo) /\ userinfo.expire[1] <= now
        THEN [valid |-> FALSE, reason |-> Some(Expired)]
        ELSE [valid |-> TRUE, reason |-> None]

(***************************************************************************)
(* A JavaScript Map, which iterates in insertion order: a sequence of      *)
(* [key, value] entries with distinct keys.  set() on a key the map has    *)
(* replaces the value in place.                                            *)
(***************************************************************************)
MapHas(m, k) == \E i \in 1..Len(m) : m[i].key = k

MapGet(m, k) == m[CHOOSE i \in 1..Len(m) : m[i].key = k].value

MapSet(m, k, v) ==
    IF MapHas(m, k)
    THEN [i \in 1..Len(m) |-> IF m[i].key = k THEN [key |-> k, value |-> v] ELSE m[i]]
    ELSE Append(m, [key |-> k, value |-> v])

(***************************************************************************)
(* extractSubscriptionLinks.  content.match(SUBSCRIPTION_REGEX) is the     *)
(* sequence of the text's matches, in the order they occur.                *)
(***************************************************************************)
\* Mutant of findAndAddLinks: a later occurrence overwrites the host.
RECURSIVE findAndAddLinksLastWins(_, _, _)
findAndAddLinksLastWins(uniquePotentialLinks, content, host) ==
    IF content = <<>> THEN uniquePotentialLinks
    ELSE findAndAddLinksLastWins(MapSet(uniquePotentialLinks, Head(content), host),
                                 Tail(content), host)

RECURSIVE findAndAddLinks(_, _, _)
findAndAddLinks(uniquePotentialLinks, content, host) ==
    IF content = <<>> THEN uniquePotentialLinks
    ELSE LET link == Head(content)
         IN  findAndAddLinks(
                IF ~MapHas(uniquePotentialLinks, link)
                THEN MapSet(uniquePotentialLinks, link, host)
                ELSE uniquePotentialLinks,
                Tail(content), host)

RECURSIVE ScanPages(_, _)
ScanPages(pages, uniquePotentialLinks) ==
    IF pages = <<>> THEN uniquePotentialLinks
    ELSE LET page == Head(pages)
             afterBody == findAndAddLinks(uniquePotentialLinks, page.body, page.host)
             afterHeader == findAndAddLinks(afterBody, page.header, page.host)
             afterBanner == findAndAddLinks(afterHeader, page.banner, page.host)
         IN  ScanPages(Tail(pages), afterBanner)

extractSubscriptionLinks(pages) ==
    LET uniquePotentialLinks == ScanPages(pages, <<>>)
    IN  [i \in 1..Len(uniquePotentialLinks) |->
            [link |-> uniquePotentialLinks[i].key, host |-> uniquePotentialLinks[i].value]]

processSubscriptionHosts(subscriptionTargets) ==
    [i \in 1..Len(subscriptionTargets) |->
        [link |-> buildFullUrl(subscriptionTargets[i].host,
                               Some(subscriptionTargets[i].protocol)),
         host |-> subscriptionTargets[i].host]]

(***************************************************************************)
(* deduplicateLinks.  new URL(link) parses a link that has a scheme and a  *)
(* well-formed authority and throws otherwise; url.hostname is the         *)
(* authority in lower case without its port, and a link without a path has *)
(* pathname "/".  The key is the string hostname + pathname + search.      *)
(***************************************************************************)
Schemes == {"http://", "https://", "ftp://"}

BadAuthorities == {"[bad"}

URLparses(link) ==
    /\ Len(link) \in {2, 3}
    /\ link[1] \in Schemes
    /\ link[2] \notin BadAuthorities

hostname(authority) ==
    CASE authority = "A.example" -> "a.example"
      [] authority = "a.example:8080" -> "a.example"
      [] OTHER -> authority

hostKey(link) ==
    <<hostname(link[2]), IF Len(link) = 3 THEN link[3] ELSE "/">>

\* Mutant of DedupStep: the stored entry keeps its host and takes the https link.
DedupStepRewritesLink(uniqueLinksMap, item) ==
    IF URLparses(item.link)
    THEN LET k == hostKey(item.link)
         IN  IF ~MapHas(uniqueLinksMap, k)
             THEN MapSet(uniqueLinksMap, k, item)
             ELSE IF /\ StartsWith(item.link, "https://")
                     /\ StartsWith(MapGet(uniqueLinksMap, k).link, "http://")
             THEN MapSet(uniqueLinksMap, k,
                         [link |-> item.link, host |-> MapGet(uniqueLinksMap, k).host])
             ELSE uniqueLinksMap
    ELSE IF ~MapHas(uniqueLinksMap, item.link)
         THEN MapSet(uniqueLinksMap, item.link, item)
         ELSE uniqueLinksMap

DedupStep(uniqueLinksMap, item) ==
    IF URLparses(item.link)
    THEN LET k == hostKey(item.link)
         IN  IF ~MapHas(uniqueLinksMap, k)
             THEN MapSet(uniqueLinksMap, k, item)
             ELSE IF /\ StartsWith(item.link, "https://")
                     /\ StartsWith(MapGet(uniqueLinksMap, k).link, "http://")
             THEN MapSet(uniqueLinksMap, k, item)
             ELSE uniqueLinksMap
    ELSE IF ~MapHas(uniqueLinksMap, item.link)
         THEN MapSet(uniqueLinksMap, item.link, item)
         ELSE uniqueLinksMap

RECURSIVE DedupFold(_, _)
DedupFold(links, uniqueLinksMap) ==
    IF links = <<>> THEN uniqueLinksMap
    ELSE DedupFold(Tail(links), DedupStep(uniqueLinksMap, Head(links)))

deduplicateLinks(links) ==
    LET uniqueLinksMap == DedupFold(links, <<>>)
    IN  [i \in 1..Len(uniqueLinksMap) |-> uniqueLinksMap[i].value]

(***************************************************************************)
(* async.mapLimit(items, CONCURRENCY_LIMIT, iteratee): the batch keeps the *)
(* position of the next item to start, the number of running iteratees,    *)
(* and one result slot per item.  status[i] is "idle" before item i's      *)
(* iteratee is called, "fetching" until its fetch settles, "reading" while *)
(* its body is read, "done" once its callback has been called.  resp[i]    *)
(* records what the network answered item i: its response, then its body.  *)
(***************************************************************************)
EmptyBatch ==
    [items |-> <<>>, status |-> <<>>, results |-> <<>>, held |-> <<>>,
     fetches |-> <<>>, resp |-> <<>>, running |-> 0, next |-> 1, ticks |-> 0]

\* Mutant of Replenish: the loop runs while running <= limit.
ReplenishOneTooMany(b) ==
    LET k == Min(limit + 1 - b.running, Len(b.items) - b.next + 1)
        started == b.next .. (b.next + k - 1)
    IN  [b EXCEPT
            !.status = [i \in 1..Len(b.items) |-> IF i \in started THEN "fetching" ELSE @[i]],
            !.fetches = [i \in 1..Len(b.items) |-> IF i \in started THEN @[i] + 1 ELSE @[i]],
            !.running = @ + k,
            !.next = @ + k]

\* replenish(): call the iteratee on the next items while running < limit
Replenish(b) ==
    LET k == Min(limit - b.running, Len(b.items) - b.next + 1)
        started == b.next .. (b.next + k - 1)
    IN  [b EXCEPT
            !.status = [i \in 1..Len(b.items) |-> IF i \in started THEN "fetching" ELSE @[i]],
            !.fetches = [i \in 1..Len(b.items) |-> IF i \in started THEN @[i] + 1 ELSE @[i]],
            !.running = @ + k,
            !.next = @ + k]

mapLimit(items) ==
    Replenish([items |-> items,
               status |-> [i \in 1..Len(items) |-> "idle"],
               results |-> [i \in 1..Len(items) |-> None],
               held |-> [i \in 1..Len(items) |-> None],
               fetches |-> [i \in 1..Len(items) |-> 0],
               resp |-> [i \in 1..Len(items) |-> <<>>],
               running |-> 0, next |-> 1, ticks |-> 0])

\* Mutant of Deliver: the results are collected in completion order.
DeliverInCompletionOrder(b, i, result) ==
    Replenish([b EXCEPT !.status[i] = "done",
                        !.results[b.ticks + 1] = Some(result),
                        !.held[i] = None,
                        !.running = @ - 1,
                        !.ticks = @ + 1])

\* Mutant of Deliver: an item is fetched a second time before its result counts.
DeliverAfterRetry(b, i, result) ==
    IF b.fetches[i] < 2
    THEN [b EXCEPT !.status[i] = "fetching", !.fetches[i] = @ + 1, !.held[i] = None]
    ELSE Replenish([b EXCEPT !.status[i] = "done",
                             !.results[i] = Some(result),
                             !.held[i] = None,
                             !.running = @ - 1,
                             !.ticks = @ + 1])

\* Mutant of Deliver: the callback does not start the items that wait.
DeliverWithoutReplenish(b, i, result) ==
    [b EXCEPT !.status[i] = "done",
              !.results[i] = Some(result),
              !.held[i] = None,
              !.running = @ - 1,
              !.ticks = @ + 1]

\* Mutant of Deliver: the last item of a batch is delivered without a tick.
DeliverSkipsLastTick(b, i, result) ==
    Replenish([b EXCEPT !.status[i] = "done",
                        !.results[i] = Some(result),
                        !.held[i] = None,
                        !.running = @ - 1,
                        !.ticks = IF @ + 1 = Len(b.items) THEN @ ELSE @ + 1])

\* progressBar.tick(); callback(null, result): the slot is filled, then replenish()
Deliver(b, i, result) ==
    Replenish([b EXCEPT !.status[i] = "done",
                        !.results[i] = Some(result),
                        !.held[i] = None,
                        !.running = @ - 1,
                        !.ticks = @ + 1])

\* Mutant of BatchComplete: the promise resolves once every item was started.
BatchAllStarted(b) == b.next > Len(b.items)

\* the promise of mapLimit resolves: every item was started and none is running
BatchComplete(b) == b.next > Len(b.items) /\ b.running = 0

(***************************************************************************)
(* HTTP responses.  fetch() rejects with an error (a network failure, or   *)
(* the AbortSignal's timeout), or resolves with a status and headers; the  *)
(* body is read afterwards and the read may fail too.                      *)
(***************************************************************************)
ResponseOk(res) == res.status >= 200 /\ res.status <= 299

Rejection(message) == [kind |-> "reject", message |-> message, status |-> 0, header |-> None]

Response(status, header) ==
    [kind |-> "response", message |-> "", status |-> status, header |-> header]

BodyFailure(message) == [ok |-> FALSE, message |-> message, text |-> ""]

BodyText(text) == [ok |-> TRUE, message |-> "", text |-> text]

(***************************************************************************)
(* A promise chain ends by handing a value on, or by rejecting: a          *)
(* rejection nothing catches ends the process.                             *)
(***************************************************************************)
Returned(value) == [raised |-> FALSE, value |-> value]

Raised == [raised |-> TRUE, value |-> None]

(***************************************************************************)
(* The iteratee of fetchPageContents: a PageResult, or null (None).        *)
(***************************************************************************)
\* Mutant of PageCatch: the rejection is passed on.
PageCatchRethrows(message) == Raised

\* .catch(() => null)
PageCatch(message) == Returned(None)

\* .then(res => ...) on the fetch: Some(outcome) when the chain settles
\* without reading the body, None when res.text() is awaited
PageOnResponse(target, res) ==
    IF res.kind = "reject" THEN Some(PageCatch(res.message))
    ELSE IF ~ResponseOk(res) THEN Some(Returned(None))
    ELSE None

\* res.text().then(body => ...)
PageOnBody(target, body) ==
    IF ~body.ok THEN PageCatch(body.message)
    ELSE Returned(Some([host |-> target.host, body |-> body.text,
                        header |-> target.header, banner |-> target.banner]))

\* (results || []).filter(Boolean)
RECURSIVE FilterBoolean(_)
FilterBoolean(results) ==
    IF results = <<>> THEN <<>>
    ELSE IF Head(results) = None \/ Head(results)[1] = None
         THEN FilterBoolean(Tail(results))
         ELSE <<Head(results)[1][1]>> \o FilterBoolean(Tail(results))

(***************************************************************************)
(* The iteratee of verifySubscriptionLinks.  The fail reasons stand for    *)
(* the source's strings: "访问失败 (<message>)", "HTTP <status>",           *)
(* "缺少 subscription-userinfo 响应头", "subscription-userinfo 解析失败",   *)
(* "非 YAML 内容", and the reason of validateSubscription.                  *)
(***************************************************************************)
FetchFailed == "fetch failed"
MissingHeader == "missing subscription-userinfo header"
HeaderParseFailed == "subscription-userinfo parse failed"
NotYaml == "not YAML"

Failed(link, host, reason) ==
    [link |-> link, host |-> host, status |-> "failed",
     usageInfo |-> None, failReason |-> Some(reason)]

Succeeded(link, host, usageInfo) ==
    [link |-> link, host |-> host, status |-> "success",
     usageInfo |-> Some(usageInfo), failReason |-> None]

\* Mutant of VerifyCatch: the failed result carries no reason.
VerifyCatchNoReason(item, message) ==
    Returned([link |-> item.link, host |-> item.host, status |-> "failed",
              usageInfo |-> None, failReason |-> None])

\* .catch((err) => ...)
VerifyCatch(item, message) ==
    Returned(Failed(item.link, item.host, <<FetchFailed, message>>))

\* .then(res => ...) up to res.text(): [settled, outcome, userinfo]
VerifyOnResponse(item, res) ==
    IF res.kind = "reject"
    THEN [settled |-> TRUE, outcome |-> VerifyCatch(item, res.message), userinfo |-> None]
    ELSE IF ~ResponseOk(res)
    THEN [settled |-> TRUE, userinfo |-> None,
          outcome |-> Returned(Failed(item.link, item.host, <<"HTTP", ToString(res.status)>>))]
    ELSE IF HeaderFalsy(res.header)
    THEN [settled |-> TRUE, userinfo |-> None,
          outcome |-> Returned(Failed(item.link, item.host, <<MissingHeader>>))]
    ELSE IF parseSubscriptionUserinfo(res.header) = None
    THEN [settled |-> TRUE, userinfo |-> None,
          outcome |-> Returned(Failed(item.link, item.host, <<HeaderParseFailed>>))]
    ELSE [settled |-> FALSE, outcome |-> Raised,
          userinfo |-> parseSubscriptionUserinfo(res.header)]

\* Mutant of VerifyOnBody: the subscription is validated before the payload.
VerifyOnBodyValidatesFirst(item, userinfo, body, t1, t2) ==
    IF ~body.ok THEN VerifyCatch(item, body.message)
    ELSE LET validation == validateSubscription(userinfo, t1)
         IN  IF ~validation.valid
             THEN Returned(Failed(item.link, item.host, <<validation.reason[1]>>))
             ELSE IF ~parseYamlContent(body.text)
             THEN Returned(Failed(item.link, item.host, <<NotYaml>>))
             ELSE Returned(Succeeded(item.link, item.host, formatUsageInfo(userinfo, t2)))

\* res.text().then(subBody => ...): validateSubscription reads the clock as t1,
\* formatUsageInfo as t2
VerifyOnBody(item, userinfo, body, t1, t2) ==
    IF ~body.ok THEN VerifyCatch(item, body.message)
    ELSE IF ~parseYamlContent(body.text)
    THEN Returned(Failed(item.link, item.host, <<NotYaml>>))
    ELSE LET validation == validateSubscription(userinfo, t1)
         IN  IF ~validation.valid
             THEN Returned(Failed(item.link, item.host, <<validation.reason[1]>>))
             ELSE Returned(Succeeded(item.link, item.host, formatUsageInfo(userinfo, t2)))

(***************************************************************************)
(* reportResults: one line per successful link, then the count.            *)
(***************************************************************************)
RECURSIVE SelectSuccess(_)
SelectSuccess(results) ==
    IF results = <<>> THEN <<>>
    ELSE IF Head(results).status = "success"
         THEN <<Head(results)>> \o SelectSuccess(Tail(results))
         ELSE SelectSuccess(Tail(results))

reportResults(results) ==
    LET successfulLinks == SelectSuccess(results)
    IN  [lines |-> [i \in 1..Len(successfulLinks) |->
                        [link |-> successfulLinks[i].link,
                         sourceUrl |-> buildFullUrl(successfulLinks[i].host, None),
                         usageInfo |-> successfulLinks[i].usageInfo]],
         found |-> Len(successfulLinks)]

(***************************************************************************)
(* The inputs the environment supplies: search results, page responses,    *)
(* verification responses, clock readings.                                 *)
(***************************************************************************)
SeqsUpTo(S, n) == UNION {[1..k -> S] : k \in 0..n}

TokenPath == "/api/v1/client/subscribe?token=abc"
LinkA == <<"http://", "a.example", TokenPath>>
LinkAs == <<"https://", "a.example", TokenPath>>
LinkB == <<"https://", "b.example", TokenPath>>
LinkC == <<"http://", "c.example", TokenPath>>

\* the k-th target of the subscription-token query: odd ones are bare hosts
\* (with a link in their banner from the third on), even ones carry a scheme
\* and a link in their header
PageTarget(k) ==
    IF k % 2 = 1
    THEN [host |-> <<"p" \o ToString(k) \o ".example">>, protocol |-> "http",
          header |-> <<>>, banner |-> IF k = 1 THEN <<>> ELSE <<LinkC>>]
    ELSE [host |-> <<"https://", "p" \o ToString(k) \o ".example">>, protocol |-> "https",
          header |-> <<LinkA>>, banner |-> <<>>]

\* the k-th target of the subscription-userinfo query
DirectTarget(k) ==
    IF k = 1
    THEN [host |-> <<"a.example", TokenPath>>, protocol |-> "https",
          header |-> <<>>, banner |-> <<>>]
    ELSE IF k = 2
    THEN [host |-> <<"httpbin.example">>, protocol |-> "http",
          header |-> <<>>, banner |-> <<>>]
    ELSE [host |-> <<"d" \o ToString(k) \o ".example">>, protocol |-> "http",
          header |-> <<>>, banner |-> <<>>]

PageTargetLists == {[k \in 1..n |-> PageTarget(k)] : n \in 0..MaxTargets}

DirectTargetLists == {[k \in 1..n |-> DirectTarget(k)] : n \in 0..MaxDirect}

SearchFailures == {"transport", "status", "json", "errflag"}

PageResponses ==
    {Rejection("network"), Rejection("timeout"), Response(404, None), Response(200, None)}

PageBodies == {BodyFailure("terminated"), BodyText(<<>>), BodyText(<<LinkB, LinkAs>>)}

RECURSIVE NumChars(_)
NumChars(n) ==
    IF n < 10 THEN <<Digits[n + 1]>>
    ELSE NumChars(n \div 10) \o <<Digits[(n % 10) + 1]>>

Seg(key, value) == [key |-> key, value |-> value]

Usage(upload, download, total) ==
    <<Seg("upload", NumChars(upload)), Seg("download", NumChars(download)),
      Seg("total", NumChars(total))>>

HeaderGood == Some(Usage(10, 20, 100))
HeaderExhausted == Some(Usage(60, 50, 100))
HeaderExpiring(expire) == Some(Usage(10, 20, 100) \o <<Seg("expire", NumChars(expire))>>)
HeaderEmpty == Some(<<EmptySegment>>)
HeaderJunk == Some(<<Seg("upload", <<"a", "b">>), Seg("foo", <<"1">>)>>)

Times == {1999, 2000, 3000}

StartTime == 2 * MsPerSecond - 1

\* what the pipeline-level specification draws from
PipeResponses ==
    {Rejection("timeout"), Response(404, HeaderGood), Response(200, None),
     Response(200, HeaderGood)}

PipeBodies == {BodyFailure("terminated"), BodyText("malformed"), BodyText("config")}

\* what the verification-level specification draws from
AllHeaders ==
    {None, HeaderEmpty, HeaderGood, HeaderExhausted, HeaderJunk,
     HeaderExpiring(0), HeaderExpiring(1), HeaderExpiring(2), HeaderExpiring(3)}

AllResponses ==
    {Rejection("network"), Rejection("timeout")}
        \cup {Response(st, h) : st \in {200, 204, 404, 500}, h \in AllHeaders}

AllBodies == {BodyFailure("terminated")} \cup {BodyText(b) : b \in Bodies}

(***************************************************************************)
(* main().                                                                 *)
(***************************************************************************)
Init ==
    /\ pc = "search"
    /\ exitCode = -1
    /\ limit \in 1..MaxLimit
    /\ clock = StartTime
    /\ query = <<"pending", "pending">>
    /\ targets = <<<<>>, <<>>>>
    /\ fetchB = EmptyBatch
    /\ verifyB = EmptyBatch
    /\ found = [pages |-> -1, links |-> -1]
    /\ report = None
    /\ fin = None
    /\ fout = None

\* process.exit(code), or main() returning (exit code 0)
Exit(code, at) ==
    /\ pc' = at
    /\ exitCode' = code

\* queryFofaApiGeneric resolves with the targets (none when results is missing or empty)
QueryOk(q, results) ==
    /\ pc = "search"
    /\ query[q] = "pending"
    /\ query' = [query EXCEPT ![q] = "ok"]
    /\ targets' = [targets EXCEPT ![q] = results]
    /\ UNCHANGED <<pc, exitCode, limit, clock, fetchB, verifyB, found, report, fin, fout>>

\* Mutant of QueryFail: the failed query counts as one without results.
QueryFailSwallowed(q, why) ==
    /\ pc = "search"
    /\ query[q] = "pending"
    /\ why \in SearchFailures
    /\ query' = [query EXCEPT ![q] = "failed"]
    /\ UNCHANGED <<pc, exitCode, limit, clock, targets, fetchB, verifyB, found, report, fin, fout>>

\* queryFofaApiGeneric rejects: Promise.all rejects, main's catch calls exit(1)
QueryFail(q, why) ==
    /\ pc = "search"
    /\ query[q] = "pending"
    /\ why \in SearchFailures
    /\ query' = [query EXCEPT ![q] = "failed"]
    /\ Exit(1, "aborted")
    /\ UNCHANGED <<limit, clock, targets, fetchB, verifyB, found, report, fin, fout>>

\* step 3 of main, from the pages of step 2: extract, merge, deduplicate
allLinksToVerify(pages, subscriptionTargets) ==
    deduplicateLinks(extractSubscriptionLinks(pages) \o processSubscriptionHosts(subscriptionTargets))

\* Mutant of AfterStep2: no early return.
AfterStep2NoShortCircuit(pages) ==
    LET links == allLinksToVerify(pages, targets[2])
    IN  /\ verifyB' = mapLimit(links)
        /\ found' = [pages |-> Len(pages), links |-> Len(links)]
        /\ pc' = "verify"
        /\ UNCHANGED exitCode

\* main from the end of step 2: return, or start the verification batch
AfterStep2(pages) ==
    LET links == allLinksToVerify(pages, targets[2])
    IN  IF Len(pages) = 0 /\ Len(targets[2]) = 0
        THEN /\ Exit(0, "done")
             /\ found' = [found EXCEPT !.pages = Len(pages)]
             /\ UNCHANGED verifyB
        ELSE IF Len(links) = 0
        THEN /\ Exit(0, "done")
             /\ found' = [pages |-> Len(pages), links |-> 0]
             /\ UNCHANGED verifyB
        ELSE /\ verifyB' = mapLimit(links)
             /\ found' = [pages |-> Len(pages), links |-> Len(links)]
             /\ pc' = "verify"
             /\ UNCHANGED exitCode

\* Promise.all resolved: main runs on to its next await or return
MainAfterSearch ==
    /\ pc = "search"
    /\ query = <<"ok", "ok">>
    /\ IF Len(targets[1]) = 0 /\ Len(targets[2]) = 0
       THEN Exit(0, "done") /\ UNCHANGED <<fetchB, verifyB, found>>
       ELSE IF Len(targets[1]) > 0
       THEN /\ fetchB' = mapLimit(targets[1])
            /\ pc' = "fetch"
            /\ UNCHANGED <<exitCode, verifyB, found>>
       ELSE AfterStep2(<<>>) /\ UNCHANGED fetchB
    /\ UNCHANGED <<limit, clock, query, targets, report, fin, fout>>

\* the fetch of page i settles
PageRespond(i, res) ==
    /\ pc = "fetch"
    /\ i \in 1..Len(fetchB.items)
    /\ fetchB.status[i] = "fetching"
    /\ LET settled == PageOnResponse(fetchB.items[i], res)
           b == [fetchB EXCEPT !.resp[i] = <<res>>]
       IN  IF settled = None
           THEN fetchB' = [b EXCEPT !.status[i] = "reading"] /\ UNCHANGED <<pc, exitCode>>
           ELSE IF settled[1].raised
           THEN fetchB' = b /\ Exit(1, "aborted")
           ELSE fetchB' = Deliver(b, i, settled[1].value) /\ UNCHANGED <<pc, exitCode>>
    /\ UNCHANGED <<limit, clock, query, targets, verifyB, found, report, fin, fout>>

\* res.text() of page i settles
PageBody(i, body) ==
    /\ pc = "fetch"
    /\ i \in 1..Len(fetchB.items)
    /\ fetchB.status[i] = "reading"
    /\ LET outcome == PageOnBody(fetchB.items[i], body)
           b == [fetchB EXCEPT !.resp[i] = Append(@, body)]
       IN  IF outcome.raised
           THEN fetchB' = b /\ Exit(1, "aborted")
           ELSE fetchB' = Deliver(b, i, outcome.value) /\ UNCHANGED <<pc, exitCode>>
    /\ UNCHANGED <<limit, clock, query, targets, verifyB, found, report, fin, fout>>

\* promise.then(results => ...) of fetchPageContents
validResults(b) == FilterBoolean(b.results)

\* fetchPageContents resolves with the valid pages and main runs on; the batch
\* hands its results over and keeps its counters
MainAfterFetch ==
    /\ pc = "fetch"
    /\ BatchComplete(fetchB)
    /\ AfterStep2(validResults(fetchB))
    /\ fetchB' = [fetchB EXCEPT !.results = [i \in 1..Len(fetchB.items) |-> None],
                                !.resp = [i \in 1..Len(fetchB.items) |-> <<>>]]
    /\ UNCHANGED <<limit, clock, query, targets, report, fin, fout>>

\* the fetch of link i settles
VerifyRespond(i, res) ==
    /\ pc = "verify"
    /\ i \in 1..Len(verifyB.items)
    /\ verifyB.status[i] = "fetching"
    /\ LET r == VerifyOnResponse(verifyB.items[i], res)
           b == [verifyB EXCEPT !.resp[i] = <<res>>]
       IN  IF ~r.settled
           THEN /\ verifyB' = [b EXCEPT !.status[i] = "reading", !.held[i] = r.userinfo]
                /\ UNCHANGED <<pc, exitCode>>
           ELSE IF r.outcome.raised
           THEN verifyB' = b /\ Exit(1, "aborted")
           ELSE verifyB' = Deliver(b, i, r.outcome.value) /\ UNCHANGED <<pc, exitCode>>
    /\ UNCHANGED <<limit, clock, query, targets, fetchB, found, report, fin, fout>>

\* res.text() of link i settles; the handler reads the clock twice
VerifyBody(i, body, t1, t2) ==
    /\ pc = "verify"
    /\ i \in 1..Len(verifyB.items)
    /\ verifyB.status[i] = "reading"
    /\ clock <= t1 /\ t1 <= t2
    /\ LET outcome == VerifyOnBody(verifyB.items[i], verifyB.held[i][1], body, t1, t2)
           b == [verifyB EXCEPT !.resp[i] = Append(@, body)]
       IN  IF outcome.raised
           THEN verifyB' = b /\ Exit(1, "aborted")
           ELSE verifyB' = Deliver(b, i, outcome.value) /\ UNCHANGED <<pc, exitCode>>
    /\ clock' = t2
    /\ UNCHANGED <<limit, query, targets, fetchB, found, report, fin, fout>>

\* promise.then(results => ...) of verifySubscriptionLinks: filter(Boolean)
\* drops the null results, and a slot never filled
RECURSIVE DropNull(_)
DropNull(results) ==
    IF results = <<>> THEN <<>>
    ELSE IF Head(results) = None
         THEN DropNull(Tail(results))
         ELSE <<Head(results)[1]>> \o DropNull(Tail(results))

verificationResults(b) == DropNull(b.results)

\* verifySubscriptionLinks resolves, reportResults prints, main returns
MainAfterVerify ==
    /\ pc = "verify"
    /\ BatchComplete(verifyB)
    /\ report' = Some(reportResults(verificationResults(verifyB)))
    /\ Exit(0, "done")
    /\ UNCHANGED <<limit, clock, query, targets, fetchB, verifyB, found, fin, fout>>

Next ==
    \/ \E q \in 1..2, why \in SearchFailures : QueryFail(q, why)
    \/ \E results \in PageTargetLists : QueryOk(1, results)
    \/ \E results \in DirectTargetLists : QueryOk(2, results)
    \/ MainAfterSearch
    \/ \E i \in 1..Len(fetchB.items), res \in PageResponses : PageRespond(i, res)
    \/ \E i \in 1..Len(fetchB.items), body \in PageBodies : PageBody(i, body)
    \/ MainAfterFetch
    \/ \E i \in 1..Len(verifyB.items), res \in PipeResponses : VerifyRespond(i, res)
    \/ \E i \in 1..Len(verifyB.items), body \in PipeBodies : VerifyBody(i, body, clock, clock)
    \/ MainAfterVerify

Spec == Init /\ [][Next]_vars

(***************************************************************************)
(* Properties of the pipeline (specification Spec).                        *)
(***************************************************************************)
Items(b) == 1..Len(b.items)

\* the operations started and not yet delivered
InFlight(b) == Cardinality({i \in Items(b) : b.status[i] \in {"fetching", "reading"}})

Delivered(b) == {i \in Items(b) : b.results[i] # None}

Started(b) == \E i \in Items(b) : b.fetches[i] > 0

Batches == <<fetchB, verifyB>>

\* C1: in the page-fetch batch and in the verification batch, the number of
\* operations started and not yet delivered is at most the concurrency limit
\* in every reachable state.
C1_AtMostLimitInFlight ==
    /\ InFlight(fetchB) <= limit
    /\ InFlight(verifyB) <= limit

\* C1 witness: a verification batch with more links than the limit, the limit
\* reached, one link delivered and one still waiting for a slot.
C1_Witness ==
    /\ pc = "verify"
    /\ Len(verifyB.items) > limit
    /\ InFlight(verifyB) = limit
    /\ \E i \in Items(verifyB) : verifyB.status[i] = "done"
    /\ \E i \in Items(verifyB) : verifyB.status[i] = "idle"

\* C2: when verifySubscriptionLinks resolves it returns exactly one result per
\* input link, and the i-th result carries the link and host of the i-th
\* input, whatever the completion order and whichever operations failed.
C2_ResultsMatchInputPositions ==
    (pc \in {"verify", "done"} /\ Len(verifyB.items) > 0 /\ BatchComplete(verifyB)) =>
        LET out == verificationResults(verifyB)
        IN  /\ Len(out) = Len(verifyB.items)
            /\ \A i \in Items(verifyB) :
                  /\ out[i].link = verifyB.items[i].link
                  /\ out[i].host = verifyB.items[i].host

\* C2 witness: a resolved batch of three links, the first failed on its
\* fetch, the second on its body read, the third succeeded.
C2_Witness ==
    /\ pc = "done"
    /\ Len(verifyB.items) = 3
    /\ BatchComplete(verifyB)
    /\ verifyB.resp[1] = <<Rejection("timeout")>>
    /\ Len(verifyB.resp[2]) = 2 /\ ~verifyB.resp[2][2].ok
    /\ verifyB.results[3][1].status = "success"

\* what the network answered is a per-item failure: a rejected fetch (network
\* error, timeout), a non-success status, or a failed body read
ItemFailure(resp) ==
    \/ resp[1].kind = "reject"
    \/ resp[1].status < 200 \/ resp[1].status > 299
    \/ (Len(resp) = 2 /\ ~resp[2].ok)

\* the page the claim expects of a target and the answer it got
ExpectedPage(target, resp) ==
    IF ItemFailure(resp) THEN None
    ELSE Some([host |-> target.host, body |-> resp[2].text,
               header |-> target.header, banner |-> target.banner])

Verdict(result) == <<result.status, result.usageInfo, result.failReason>>

\* C3: a per-item failure never fails the batch: once both searches have
\* succeeded the process never exits with 1; an item waits unstarted only
\* while the limit is reached, whatever failed before; every delivered page
\* result is the page of its own response, or null on its own failure; every
\* delivered verdict carries its own link and host, is a failure when its own
\* response is one, and two links with the same response get the same verdict.
C3_FailuresStayWithTheirItem ==
    /\ query = <<"ok", "ok">> => exitCode # 1
    /\ \A k \in 1..2 :
          (\E i \in Items(Batches[k]) : Batches[k].status[i] = "idle") =>
              InFlight(Batches[k]) = limit
    /\ \A i \in Delivered(fetchB) :
          fetchB.results[i][1] = ExpectedPage(fetchB.items[i], fetchB.resp[i])
    /\ \A i \in Delivered(verifyB) :
          /\ verifyB.results[i][1].link = verifyB.items[i].link
          /\ verifyB.results[i][1].host = verifyB.items[i].host
          /\ ItemFailure(verifyB.resp[i]) => verifyB.results[i][1].status = "failed"
          /\ \A j \in Delivered(verifyB) :
                verifyB.resp[i] = verifyB.resp[j] =>
                    Verdict(verifyB.results[i][1]) = Verdict(verifyB.results[j][1])

\* C3 witness: a page batch in which the first page's fetch was rejected and
\* the second's body read failed, while the third page was fetched.
C3_Witness ==
    /\ pc = "fetch"
    /\ Len(fetchB.items) = 3
    /\ fetchB.resp[1] = <<Rejection("network")>>
    /\ Len(fetchB.resp[2]) = 2 /\ ~fetchB.resp[2][2].ok
    /\ fetchB.results[1] = Some(None)
    /\ fetchB.results[2] = Some(None)
    /\ fetchB.results[3] # None /\ fetchB.results[3][1] # None

FailReasons ==
    {<<FetchFailed, m>> : m \in {"network", "timeout", "terminated"}}
        \cup {<<"HTTP", ToString(st)>> : st \in {204, 404, 500}}
        \cup {<<MissingHeader>>, <<HeaderParseFailed>>, <<NotYaml>>,
              <<QuotaExhausted>>, <<Expired>>}

\* a terminal verdict: SUCCESS, or FAILED with one reason
IsVerdict(r) ==
    \/ r.status = "success" /\ r.usageInfo # None /\ r.failReason = None
    \/ r.status = "failed" /\ r.usageInfo = None /\ r.failReason # None
                           /\ r.failReason[1] \in FailReasons

\* C4: every link is fetched at most once, exactly once as soon as it is
\* started; a link has a result exactly when its operation is done, and the
\* result is one terminal verdict; a delivered verdict is never replaced.
C4_OneFetchOneVerdict ==
    /\ [](\A i \in Items(verifyB) :
            /\ verifyB.fetches[i] <= 1
            /\ verifyB.status[i] # "idle" => verifyB.fetches[i] = 1
            /\ verifyB.status[i] = "done" <=> verifyB.results[i] # None
            /\ verifyB.results[i] # None => IsVerdict(verifyB.results[i][1]))
    /\ [][\A i \in Items(verifyB) :
            verifyB.results[i] # None => verifyB'.results[i] = verifyB.results[i]]_vars

\* C4 witness: a link's verdict is delivered while other links are still
\* being verified.
C4_Witness ==
    /\ pc = "verify"
    /\ \E i, j \in Items(verifyB) :
          /\ verifyB.results[i] # None
          /\ verifyB.results[i][1].status = "failed"
          /\ verifyB.fetches[i] = 1
          /\ verifyB.status[j] = "reading"

\* C9: the orchestrator returns with exit code 0 as soon as a stage yields
\* nothing and starts nothing of a later stage: no page fetch and no
\* verification fetch when both queries return no target; no verification
\* fetch when no page was fetched and there is no direct host; no
\* verification fetch and no report when the merged candidate list is empty.
C9_ShortCircuit ==
    /\ (query = <<"ok", "ok">> /\ Len(targets[1]) = 0 /\ Len(targets[2]) = 0) =>
          /\ ~Started(fetchB) /\ ~Started(verifyB) /\ report = None
          /\ pc \in {"search", "done"}
          /\ pc = "done" => exitCode = 0
    /\ (found.pages = 0 /\ Len(targets[2]) = 0) =>
          /\ ~Started(verifyB) /\ report = None
          /\ pc = "done" /\ exitCode = 0
    /\ found.links = 0 =>
          /\ ~Started(verifyB) /\ report = None
          /\ pc = "done" /\ exitCode = 0

\* C9 witness: pages were fetched, no link was found in them, and main
\* returned.
C9_Witness ==
    /\ pc = "done"
    /\ found.pages > 0
    /\ found.links = 0
    /\ Started(fetchB)

\* C10: a failed search query ends the run with exit code 1 before any page
\* or verification fetch; nothing else produces exit code 1, and a run whose
\* two searches succeeded goes on (an operation is in flight or the stage is
\* over) until main returns with exit code 0.
C10_OnlySearchFailureExitsOne ==
    /\ (\E q \in 1..2 : query[q] = "failed") =>
          /\ exitCode = 1 /\ pc = "aborted"
          /\ ~Started(fetchB) /\ ~Started(verifyB) /\ report = None
    /\ exitCode = 1 => \E q \in 1..2 : query[q] = "failed"
    /\ query = <<"ok", "ok">> =>
          /\ pc = "done" <=> exitCode = 0
          /\ pc = "fetch" => (InFlight(fetchB) > 0 \/ BatchComplete(fetchB))
          /\ pc = "verify" => (InFlight(verifyB) > 0 \/ BatchComplete(verifyB))
          /\ pc \in {"search", "fetch", "verify", "done"}

\* C10 witness: every verification failed, after a page fetch failed too, and
\* main returned with exit code 0.
C10_Witness ==
    /\ pc = "done"
    /\ exitCode = 0
    /\ Len(verifyB.items) >= 2
    /\ found.pages < Len(fetchB.items)
    /\ \A i \in Items(verifyB) : verifyB.results[i][1].status = "failed"

(***************************************************************************)
(* The verification of one link, with every response the network can give  *)
(* and a clock that moves: main has just called verifySubscriptionLinks on *)
(* the link of one direct host.                                            *)
(***************************************************************************)
InitVerify ==
    /\ pc = "verify"
    /\ exitCode = -1
    /\ limit \in 1..MaxLimit
    /\ clock \in Times
    /\ query = <<"ok", "ok">>
    /\ targets = <<<<>>, <<DirectTarget(1)>>>>
    /\ fetchB = EmptyBatch
    /\ verifyB = mapLimit(allLinksToVerify(<<>>, <<DirectTarget(1)>>))
    /\ found = [pages |-> 0, links |-> 1]
    /\ report = None
    /\ fin = None
    /\ fout = None

NextVerify ==
    \/ \E i \in Items(verifyB), res \in AllResponses : VerifyRespond(i, res)
    \/ \E i \in Items(verifyB), body \in AllBodies, t1 \in Times, t2 \in Times :
          VerifyBody(i, body, t1, t2)
    \/ MainAfterVerify

SpecVerify == InitVerify /\ [][NextVerify]_vars

SUCCESS == <<"SUCCESS">>

\* the verdict of a result: its fail reason, or SUCCESS
Reason(result) == IF result.status = "success" THEN SUCCESS ELSE result.failReason[1]

\* the payload check of the claim: the body is a configuration with a
\* non-empty proxy-groups sequence
ValidPayload(text) == text = "config"

\* the verdict the claim gives to an answer, the clock read as t: the reason
\* of the first failing check in the claim's order
ClaimedReason(resp, t) ==
    LET res == resp[1]
    IN  IF res.kind = "reject" THEN <<FetchFailed, res.message>>
        ELSE IF Len(resp) = 2 /\ ~resp[2].ok THEN <<FetchFailed, resp[2].message>>
        ELSE IF res.status < 200 \/ res.status > 299 THEN <<"HTTP", ToString(res.status)>>
        ELSE IF res.header = None \/ res.header = HeaderEmpty THEN <<MissingHeader>>
        ELSE IF parseSubscriptionUserinfo(res.header) = None THEN <<HeaderParseFailed>>
        ELSE IF ~ValidPayload(resp[2].text) THEN <<NotYaml>>
        ELSE LET validation ==
                    validateSubscription(parseSubscriptionUserinfo(res.header)[1], t)
             IN  IF ~validation.valid THEN <<validation.reason[1]>> ELSE SUCCESS

\* C5: the verdict of a link is the reason of the first failing check in the
\* order fetch error, non-2xx status, missing usage header, unparsable
\* header, invalid payload, quota/expiry invalid (as validateSubscription
\* judges it at a reading of the clock), and SUCCESS when none fails.
C5_FirstFailingCheckDecides ==
    \A i \in Delivered(verifyB) :
        \E t \in Times :
            /\ t <= clock
            /\ Reason(verifyB.results[i][1]) = ClaimedReason(verifyB.resp[i], t)

\* C5 witness: a response whose payload is invalid and whose quota is
\* exhausted got the invalid-payload verdict.
C5_Witness ==
    /\ verifyB.resp[1] = <<Response(200, HeaderExhausted), BodyText("malformed")>>
    /\ verifyB.results[1] # None
    /\ verifyB.results[1][1].failReason = Some(<<NotYaml>>)

(***************************************************************************)
(* Function-level specifications: the function under study is called once  *)
(* on an input drawn from a bounded set; main is not running.              *)
(***************************************************************************)
NoPipeline ==
    /\ pc = "call"
    /\ exitCode = -1
    /\ limit = 1
    /\ query = <<"pending", "pending">>
    /\ targets = <<<<>>, <<>>>>
    /\ fetchB = EmptyBatch
    /\ verifyB = EmptyBatch
    /\ found = [pages |-> -1, links |-> -1]
    /\ report = None

Return(value) ==
    /\ pc = "call"
    /\ pc' = "return"
    /\ fout' = Some(value)
    /\ UNCHANGED <<exitCode, limit, clock, query, targets, fetchB, verifyB, found, report, fin>>

(***************************************************************************)
(* validateSubscription on every usage record of a small range, at every   *)
(* clock reading.                                                          *)
(***************************************************************************)
UsageRecords ==
    [upload : {0, 40, 60}, download : {0, 50}, total : {0, 100},
     expire : {None, Some(0), Some(1), Some(2), Some(3)}]

InitValidate ==
    /\ NoPipeline
    /\ clock \in Times
    /\ fin \in {Some(u) : u \in UsageRecords}
    /\ fout = None

CallValidate == Return(validateSubscription(fin[1], clock))

SpecValidate == InitValidate /\ [][CallValidate]_vars

\* C6: validateSubscription returns invalid with the quota-exhausted reason
\* if upload + download >= total; otherwise invalid with the expired reason
\* if expire is present and expire <= the current unix time; otherwise valid.
C6_AsClaimed ==
    fout # None =>
        LET u == fin[1]
            now == clock \div MsPerSecond
        IN  fout[1] =
                IF u.upload + u.download >= u.total
                THEN [valid |-> FALSE, reason |-> Some(QuotaExhausted)]
                ELSE IF u.expire # None /\ u.expire[1] <= now
                THEN [valid |-> FALSE, reason |-> Some(Expired)]
                ELSE [valid |-> TRUE, reason |-> None]

(***************************************************************************)
(* deduplicateLinks on the merged list of main: the links extracted from   *)
(* pages, then the links of direct hosts.                                  *)
(***************************************************************************)
DedupDirects ==
    {[host |-> <<"httpbin.example", "/p">>, protocol |-> "http", header |-> <<>>, banner |-> <<>>],
     [host |-> <<"http://", "httpbin.example", "/p">>, protocol |-> "http",
      header |-> <<>>, banner |-> <<>>],
     [host |-> <<"https://", "httpbin.example", "/p">>, protocol |-> "https",
      header |-> <<>>, banner |-> <<>>],
     [host |-> <<"a.example">>, protocol |-> "http", header |-> <<>>, banner |-> <<>>],
     [host |-> <<"A.example">>, protocol |-> "https", header |-> <<>>, banner |-> <<>>],
     [host |-> <<"a.example:8080">>, protocol |-> "ftp", header |-> <<>>, banner |-> <<>>]}

DedupPages ==
    {<<>>,
     <<[host |-> <<"p1.example">>, body |-> <<LinkA, LinkAs>>, header |-> <<>>, banner |-> <<>>]>>}

InitDedup ==
    /\ NoPipeline
    /\ clock = StartTime
    /\ fin \in {Some(extractSubscriptionLinks(pages) \o processSubscriptionHosts(directs)) :
                    pages \in DedupPages, directs \in SeqsUpTo(DedupDirects, MaxList)}
    /\ fout = None

CallDedup == Return(deduplicateLinks(fin[1]))

SpecDedup == InitDedup /\ [][CallDedup]_vars

\* the deduplication key of a link
KeyOf(link) == IF URLparses(link) THEN hostKey(link) ELSE link

\* the scheme a link is written with, "" when it has none
Transport(link) == IF link[1] \in Schemes THEN link[1] ELSE ""

\* C7: after deduplicateLinks at most one entry survives per key; among the
\* entries colliding on a key the survivor is an https entry whenever one of
\* them is https and another is http, in either order; when they all use the
\* same transport the first one in input order survives.
C7_AsClaimed ==
    fout # None =>
        LET in == fin[1]
            out == fout[1]
        IN  /\ \A i, j \in 1..Len(out) :
                  KeyOf(out[i].link) = KeyOf(out[j].link) => i = j
            /\ \A n \in 1..Len(in) :
                  LET group == {m \in 1..Len(in) : KeyOf(in[m].link) = KeyOf(in[n].link)}
                      first == CHOOSE m \in group : \A l \in group : m <= l
                  IN  \E i \in 1..Len(out) :
                          /\ KeyOf(out[i].link) = KeyOf(in[n].link)
                          /\ (\E a, b \in group : /\ Transport(in[a].link) = "https://"
                                                  /\ Transport(in[b].link) = "http://")
                                => Transport(out[i].link) = "https://"
                          /\ (\A a, b \in group : Transport(in[a].link) = Transport(in[b].link))
                                => out[i] = in[first]

(***************************************************************************)
(* extractSubscriptionLinks on every short sequence of pages.              *)
(***************************************************************************)
ExtractPages ==
    {[host |-> <<"p1.example">>, body |-> <<LinkA, LinkB, LinkA>>, header |-> <<>>,
      banner |-> <<LinkC>>],
     [host |-> <<"p2.example">>, body |-> <<LinkB>>, header |-> <<LinkC, LinkA>>,
      banner |-> <<>>],
     [host |-> <<"p3.example">>, body |-> <<>>, header |-> <<>>, banner |-> <<LinkB, LinkAs>>],
     [host |-> <<"p4.example">>, body |-> <<>>, header |-> <<>>, banner |-> <<>>]}

InitExtract ==
    /\ NoPipeline
    /\ clock = StartTime
    /\ fin \in {Some(pages) : pages \in SeqsUpTo(ExtractPages, MaxList)}
    /\ fout = None

CallExtract == Return(extractSubscriptionLinks(fin[1]))

SpecExtract == InitExtract /\ [][CallExtract]_vars

\* every match of the pages with its host, as the scan meets them: page by
\* page, body, then header, then banner
RECURSIVE Occurrences(_)
Occurrences(pages) ==
    IF pages = <<>> THEN <<>>
    ELSE LET page == Head(pages)
             texts == page.body \o page.header \o page.banner
         IN  [k \in 1..Len(texts) |-> [link |-> texts[k], host |-> page.host]]
                 \o Occurrences(Tail(pages))

FirstIndex(occ, link) ==
    CHOOSE k \in 1..Len(occ) : occ[k].link = link /\ \A l \in 1..(k - 1) : occ[l].link # link

\* C8: extractSubscriptionLinks returns each distinct matched link exactly
\* once, with the host of the first page in whose body, header or banner it
\* occurs, in the order in which the links are first met.
C8_FirstOccurrenceWins ==
    fout # None =>
        LET occ == Occurrences(fin[1])
            out == fout[1]
        IN  /\ {out[i].link : i \in 1..Len(out)} = {occ[k].link : k \in 1..Len(occ)}
            /\ \A i, j \in 1..Len(out) : out[i].link = out[j].link => i = j
            /\ \A i \in 1..Len(out) : out[i].host = occ[FirstIndex(occ, out[i].link)].host
            /\ \A i, j \in 1..Len(out) :
                  i < j => FirstIndex(occ, out[i].link) < FirstIndex(occ, out[j].link)

\* C8 witness: a link that occurs in two pages with different hosts, the
\* second page listed first in another field order, was extracted.
C8_Witness ==
    /\ fout # None
    /\ Len(fin[1]) >= 2
    /\ fin[1][1].host = <<"p2.example">>
    /\ fin[1][2].host = <<"p1.example">>
    /\ Len(fout[1]) = 3

(***************************************************************************)
(* Further properties of the pipeline (specification Spec).                *)
(***************************************************************************)
\* C11: a backend-reported error on one query is fatal for that query only:
\* when a query fails on the error flag while the other query has returned
\* targets, the run is not aborted and goes on with those targets.
C11_AsClaimed ==
    [][\A q \in 1..2 :
          (QueryFail(q, "errflag") /\ query[3 - q] = "ok" /\ Len(targets[3 - q]) > 0)
              => (pc' # "aborted" /\ exitCode' # 1)]_vars

\* C13: each batch emits one progress tick per item: in every state the
\* number of ticks is the number of items whose result has been delivered,
\* it never exceeds the number of items, and it equals the number of items
\* when the batch completes, whether the items failed or succeeded.
C13_OneTickPerItem ==
    \A k \in 1..2 :
        LET b == Batches[k]
        IN  /\ b.ticks = Cardinality({i \in Items(b) : b.status[i] = "done"})
            /\ b.ticks <= Len(b.items)
            /\ BatchComplete(b) => b.ticks = Len(b.items)

\* C13 witness: both batches completed with three ticks each, the page batch
\* with a failed page and the verification batch with a failed and a
\* successful link.
C13_Witness ==
    /\ pc = "done"
    /\ fetchB.ticks = 3 /\ Len(fetchB.items) = 3 /\ found.pages < 3
    /\ verifyB.ticks = 3 /\ Len(verifyB.items) = 3
    /\ \E i, j \in Items(verifyB) :
          /\ verifyB.results[i][1].status = "failed"
          /\ verifyB.results[j][1].status = "success"

\* C17: the stages never overlap: pages are extracted (the link map is
\* written) only after every page fetch has completed, the deduplicated list
\* exists only after extraction, no verification fetch is started while a
\* page fetch is in flight or before the final list exists, and the report
\* is made only after every verification has completed.
C17_StagesDoNotOverlap ==
    /\ found.pages >= 0 =>
          /\ InFlight(fetchB) = 0
          /\ \A i \in Items(fetchB) : fetchB.status[i] = "done"
    /\ found.links >= 0 => found.pages >= 0
    /\ Started(verifyB) =>
          /\ InFlight(fetchB) = 0
          /\ \A i \in Items(fetchB) : fetchB.status[i] = "done"
          /\ found.links = Len(verifyB.items)
    /\ Len(verifyB.items) > 0 => Started(verifyB)
    /\ pc = "fetch" => (found.pages = -1 /\ found.links = -1 /\ ~Started(verifyB))
    /\ pc \in {"search", "fetch", "verify"} => report = None
    /\ report # None =>
          /\ InFlight(verifyB) = 0
          /\ \A i \in Items(verifyB) : verifyB.status[i] = "done"

\* C17 witness: verification fetches are in flight after a page batch of
\* three pages completed and its pages were extracted.
C17_Witness ==
    /\ pc = "verify"
    /\ InFlight(verifyB) > 0
    /\ Len(fetchB.items) = 3
    /\ fetchB.ticks = 3
    /\ found.pages >= 1

(***************************************************************************)
(* Progress.  Every started fetch ends in a response, an error or its      *)
(* timeout (AbortSignal.timeout(REQUEST_TIMEOUT)), every body read ends,   *)
(* and the event loop runs every continuation that is ready.               *)
(***************************************************************************)
LivePageResponses == {Rejection("timeout"), Response(200, None)}

LivePageBodies == {BodyFailure("terminated"), BodyText(<<LinkB, LinkAs>>)}

LiveResponses == {Rejection("timeout"), Response(200, HeaderGood)}

LiveBodies == {BodyFailure("terminated"), BodyText("config")}

SearchSettles ==
    \/ \E q \in 1..2, why \in SearchFailures : QueryFail(q, why)
    \/ \E results \in PageTargetLists : QueryOk(1, results)
    \/ \E results \in DirectTargetLists : QueryOk(2, results)

PageSettles ==
    \/ \E i \in 1..Len(fetchB.items), res \in LivePageResponses : PageRespond(i, res)
    \/ \E i \in 1..Len(fetchB.items), body \in LivePageBodies : PageBody(i, body)

VerifySettles ==
    \/ \E i \in 1..Len(verifyB.items), res \in LiveResponses : VerifyRespond(i, res)
    \/ \E i \in 1..Len(verifyB.items), body \in LiveBodies : VerifyBody(i, body, clock, clock)

NextLive ==
    \/ SearchSettles
    \/ MainAfterSearch
    \/ PageSettles
    \/ MainAfterFetch
    \/ VerifySettles
    \/ MainAfterVerify

\* Weak fairness of every step.  For MainAfterFetch it is written out:
\* ENABLED <<MainAfterFetch>>_vars is pc = "fetch" /\ BatchComplete(fetchB),
\* and every MainAfterFetch step leaves pc = "fetch", so WF_vars(MainAfterFetch)
\* is []<>~(pc = "fetch" /\ BatchComplete(fetchB)).
Fairness ==
    /\ WF_vars(SearchSettles)
    /\ WF_vars(MainAfterSearch)
    /\ WF_vars(PageSettles)
    /\ []<>~(pc = "fetch" /\ BatchComplete(fetchB))
    /\ WF_vars(VerifySettles)
    /\ WF_vars(MainAfterVerify)

SpecLive == Init /\ [][NextLive]_vars /\ Fairness

\* C18: assuming every started fetch ends, every batch completes and the
\* run reaches a terminal state (report, short-circuit exit or abort): the
\* run is eventually over with every item of the page batch and of the
\* verification batch started and delivered.
C18_EveryBatchCompletes ==
    <>(/\ pc \in {"done", "aborted"}
       /\ \A i \in Items(fetchB) : fetchB.status[i] = "done"
       /\ \A j \in Items(verifyB) : verifyB.status[j] = "done")

\* C18 witness: a run ended with its report after both batches had more
\* items than the limit, so that items waited for a slot.
C18_Witness ==
    /\ pc = "done"
    /\ report # None
    /\ Len(fetchB.items) > limit
    /\ Len(verifyB.items) > limit
    /\ \A i \in Items(verifyB) : verifyB.status[i] = "done"

(***************************************************************************)
(* Further properties of the verification of one link (SpecVerify).        *)
(***************************************************************************)
\* C12: every VerificationResult has exactly one of usageInfo and failReason
\* populated: usageInfo populated and failReason absent exactly when status
\* is success, failReason populated, non-empty, and usageInfo absent exactly
\* when status is failed, on every path including fetch and body-read errors.
C12_ExactlyOneOfUsageInfoAndFailReason ==
    \A i \in Delivered(verifyB) :
        LET r == verifyB.results[i][1]
        IN  /\ r.status \in {"success", "failed"}
            /\ r.status = "success" <=> (r.usageInfo # None /\ r.failReason = None)
            /\ r.status = "failed" <=>
                  (r.failReason # None /\ r.failReason[1] # <<>> /\ r.usageInfo = None)

\* C12 witness: a link whose body read failed got its verdict.
C12_Witness ==
    /\ verifyB.resp[1] = <<Response(200, HeaderGood), BodyFailure("terminated")>>
    /\ verifyB.results[1] # None
    /\ verifyB.results[1][1].status = "failed"

(***************************************************************************)
(* parseSubscriptionUserinfo on an absent header, the empty header, and    *)
(* every short sequence of segments.                                       *)
(***************************************************************************)
ParseSegments ==
    {Seg("upload", <<"7">>), Seg("upload", <<"a", "b", "c">>),
     Seg("upload", <<"1", "2", "a", "b", "c">>), Seg("download", <<"-", "3">>),
     Seg("total", <<"5", "0", "0">>), Seg("expire", <<>>), Seg("expire", <<"9">>),
     Seg("foo", <<"1">>)}

ParseHeaders ==
    {None, HeaderEmpty} \cup {Some(segs) : segs \in SeqsUpTo(ParseSegments, MaxList) \ {<<>>}}

InitParse ==
    /\ NoPipeline
    /\ clock = StartTime
    /\ fin \in {Some(h) : h \in ParseHeaders}
    /\ fout = None

CallParse == Return(parseSubscriptionUserinfo(fin[1]))

SpecParse == InitParse /\ [][CallParse]_vars

\* a base-10 integer: an optional sign, then digits and nothing else
IsBase10Integer(value) ==
    LET body == IF value # <<>> /\ Head(value) \in {"-", "+"} THEN Tail(value) ELSE value
    IN  body # <<>> /\ \A k \in 1..Len(body) : IsDigit(body[k])

\* the record the claim describes: a field is set only by a segment with its
\* key and a base-10 integer value
RECURSIVE ClaimedFields(_, _)
ClaimedFields(segs, result) ==
    IF segs = <<>> THEN result
    ELSE LET seg == Head(segs)
             n == parseInt(seg.value).n
             next ==
                IF ~IsBase10Integer(seg.value) THEN result
                ELSE IF seg.key = "upload" THEN [result EXCEPT !.upload = n]
                ELSE IF seg.key = "download" THEN [result EXCEPT !.download = n]
                ELSE IF seg.key = "total" THEN [result EXCEPT !.total = n]
                ELSE IF seg.key = "expire" THEN [result EXCEPT !.expire = Some(n)]
                ELSE result
         IN  ClaimedFields(Tail(segs), next)

\* C14: parseSubscriptionUserinfo returns null for an absent header and a
\* record for every present header; each field is set only by a segment with
\* that key and a base-10 integer value; a value that is not a base-10
\* integer (letters, digits followed by letters) leaves the field at its
\* default; unknown keys and empty values change nothing.
C14_AsClaimed ==
    fout # None =>
        fout[1] = IF fin[1] = None THEN None
                  ELSE Some(ClaimedFields(fin[1][1],
                            [upload |-> 0, download |-> 0, total |-> 0, expire |-> None]))

(***************************************************************************)
(* parseTraffic on byte counts around 1000 and around the powers of 1024.  *)
(***************************************************************************)
TrafficInputs ==
    {0, 1, 512, 999} \cup (BytesBelowUnit .. (UnitBase + 40))
        \cup {Pow(UnitBase, e) + d : e \in 1..2, d \in -2..2}
        \cup {BytesBelowUnit * UnitBase + d : d \in -1..1}
        \cup {300 * Pow(UnitBase, 2)}

InitTraffic ==
    /\ NoPipeline
    /\ clock = StartTime
    /\ fin \in {Some(n) : n \in TrafficInputs}
    /\ fout = None

CallTraffic == Return(parseTraffic(fin[1]))

SpecTraffic == InitTraffic /\ [][CallTraffic]_vars

\* the index of a unit in the ladder B, KB, MB, ..., YB (from 0)
UnitIndex(unit) == (CHOOSE k \in 1..Len(UNITS) : UNITS[k] = unit) - 1

\* C15: for every non-negative byte count n, parseTraffic(n) returns the
\* unit "B" if and only if n < 1000, and the index of the returned unit in
\* the ladder never decreases as n increases and stays within the ladder.
C15_AsClaimed ==
    fout # None =>
        LET n == fin[1]
            unit == fout[1][2]
        IN  /\ unit = "B" <=> n < 1000
            /\ unit \in {UNITS[k] : k \in 1..Len(UNITS)}
            /\ \A m \in TrafficInputs :
                  m <= n => UnitIndex(parseTraffic(m)[2]) <= UnitIndex(unit)

(***************************************************************************)
(* buildFullUrl on hosts with and without a scheme.                        *)
(***************************************************************************)
BuildHosts ==
    {authority \o path :
        authority \in {<<"a.example">>, <<"A.example">>, <<"a.example:8080">>,
                       <<"httpbin.example">>, <<"http://", "a.example">>,
                       <<"https://", "a.example">>, <<"https://", "httpbin.example">>},
        path \in {<<>>, <<"/p">>, <<TokenPath>>}}

BuildProtocols == {None, Some(""), Some("http"), Some("https"), Some("ftp")}

InitBuild ==
    /\ NoPipeline
    /\ clock = StartTime
    /\ fin \in {Some([host |-> h, protocol |-> p]) : h \in BuildHosts, p \in BuildProtocols}
    /\ fout = None

CallBuild == Return(buildFullUrl(fin[1].host, fin[1].protocol))

SpecBuild == InitBuild /\ [][CallBuild]_vars

\* C16: buildFullUrl returns host unchanged exactly when host begins with
\* the scheme http:// or https://; for every other host, bare hostnames
\* whose first letters are "http" included, it returns protocol + "://" +
\* host, the protocol being "http" when absent, so the link begins with a
\* scheme.
C16_AsClaimed ==
    fout # None =>
        LET host == fin[1].host
            protocol == IF fin[1].protocol \in {None, Some("")} THEN "http"
                        ELSE fin[1].protocol[1]
        IN  /\ fout[1] = IF host[1] \in {"http://", "https://"} THEN host
                         ELSE <<protocol \o "://">> \o host
            /\ fout[1][1] \in Schemes

(***************************************************************************)
(* The usage annotation and the header-parse verdict (SpecVerify).         *)
(***************************************************************************)
\* the usage record of the header a link answered with
UsageOf(resp) == parseSubscriptionUserinfo(resp[1].header)[1]

\* C19: the expiry annotation agrees with the pass/fail rule: every SUCCESS
\* verdict whose usage record has expire present carries the date annotation
\* and never the expired annotation, for every pair of clock readings, the
\* second equal to or later than the first.
C19_AsClaimed ==
    \A i \in Delivered(verifyB) :
        LET r == verifyB.results[i][1]
        IN  (r.status = "success" /\ UsageOf(verifyB.resp[i]).expire # None) =>
                /\ r.usageInfo[1].annotation # <<>>
                /\ r.usageInfo[1].annotation[1] = "date"

\* C20: the header-parse-error verdict is unreachable: whenever a 2xx
\* response has a present (non-empty) usage header, parseSubscriptionUserinfo
\* returns a record, the link goes on to the body read and the payload
\* check, and no link is ever given the header-parse-error verdict.
C20_HeaderParseErrorUnreachable ==
    \A i \in Items(verifyB) :
        /\ verifyB.results[i] # None =>
              verifyB.results[i][1].failReason # Some(<<HeaderParseFailed>>)
        /\ (/\ verifyB.resp[i] # <<>>
            /\ verifyB.resp[i][1].kind = "response"
            /\ ResponseOk(verifyB.resp[i][1])
            /\ ~HeaderFalsy(verifyB.resp[i][1].header)) =>
              /\ parseSubscriptionUserinfo(verifyB.resp[i][1].header) # None
              /\ verifyB.status[i] = "reading" \/ Len(verifyB.resp[i]) = 2
              /\ (verifyB.results[i] # None /\ verifyB.resp[i][2].ok) =>
                    Reason(verifyB.results[i][1]) \in
                        {<<NotYaml>>, <<QuotaExhausted>>, <<Expired>>, SUCCESS}

\* C20 witness: a link answered with a header that has no recognizable field
\* went on to the payload check and failed there.
C20_Witness ==
    /\ verifyB.resp[1] = <<Response(200, HeaderJunk), BodyText("malformed")>>
    /\ verifyB.results[1] # None
    /\ verifyB.results[1][1].failReason = Some(<<NotYaml>>)

(***************************************************************************)
(* Further properties of deduplicateLinks (specification SpecDedup).       *)
(***************************************************************************)
\* C21: deduplicateLinks neither invents nor loses endpoints: every output
\* entry is one of the input entries with its link and host unchanged, the
\* key of every input entry is the key of exactly one output entry, the
\* output is not longer than the input, and deduplicateLinks applied to its
\* own output returns the same list.
C21_NeitherInventsNorLoses ==
    fout # None =>
        LET in == fin[1]
            out == fout[1]
        IN  /\ \A i \in 1..Len(out) : \E n \in 1..Len(in) : out[i] = in[n]
            /\ \A n \in 1..Len(in) :
                  Cardinality({i \in 1..Len(out) :
                                  KeyOf(out[i].link) = KeyOf(in[n].link)}) = 1
            /\ Len(out) <= Len(in)
            /\ deduplicateLinks(out) = out

\* C21 witness: an http entry of one host was replaced by the https entry of
\* another host with the same key, and a third entry was dropped.
C21_Witness ==
    /\ fout # None
    /\ Len(fin[1]) = 3
    /\ Len(fout[1]) = 1
    /\ fin[1][1].link[1] = "http://"
    /\ fout[1][1].link[1] = "https://"
    /\ fout[1][1].host # fin[1][1].host

=============================================================================
